---- MODULE Spec2Model ----
(***************************************************************************)
(* Token lifecycle of the Google API integration service: credential       *)
(* store (User.googleTokens), token cache, OAuth client pool, the          *)
(* setupClient / refreshToken / updateUserTokens operations, the SDK       *)
(* "tokens" auto-refresh callback, the passport consent handler and the    *)
(* disconnect controller.  Times are milliseconds, as in the code.         *)
(* Every await of the code is a step boundary; the code between two awaits *)
(* is one atomic step.                                                     *)
(***************************************************************************)
EXTENDS Integers, Sequences, FiniteSets, TLC

\* ---- bounds of the model ------------------------------------------------
NumUsers == 1
NumProcs == 2
MaxOps == 2
MaxTicks == 1
StartTime == 4000000
MaxToggles == 2
MaxTasks == 2
MaxTaskOps == 4
MaxRequests == 32
MaxCacheOps == 4
MaxAcquires == 3
MaxHttp == 4
NumTaskUsers == 3
MaxAccessOps == 3
Pages == {1, 2}
Limits == {1, 10}

\* ---- program constants ---------------------------------------------------
RefreshMarginMs == 300000
PoolCap == 100
ListCap == 100
EmailsCap == 50
EventsCap == 50
CalendarTtlSec == 300
TasksTtlSec == 180
EmailMax == 30
EmailWindowMs == 60 * 1000
CacheTtlSec == 3000
DefaultExpiresInSec == 3600
ConsentExpiryMs == 3600000
ProviderExpiresInSec == 3600

Users == 1..NumUsers
Procs == 1..NumProcs
FirstNewToken == NumUsers + 1

\* absent / undefined / null; every token id and every timestamp is positive
None == 0

\* clock advances between steps: one second, or just past the cache TTL
TickSteps == {1000, CacheTtlSec * 1000 + 1000}

\* expiry of the credential already on file at the start, relative to it
InitExpiries == {StartTime - 1000, StartTime + RefreshMarginMs}

ErrNoTokens == "User not found or no Google tokens available"
ErrNoRefreshToken == "No refresh token available - user needs to re-authenticate"
ErrRefreshFailed == "Token refresh failed - user may need to re-authenticate"
ErrProvider == "provider error"

VARIABLES
  now,        \* Date.now()
  ticks,      \* number of clock advances so far
  store,      \* User collection: store[u] is the user document
  cache,      \* tokenCache: key tokens_<u>
  pool,       \* oauthClientPool, in insertion order
  creds,      \* credentials of every OAuth2 client object ever constructed
  instClient, \* GoogleApiService.oauth2Client (singleton instance field)
  nextTok,    \* next token id the provider issues
  ops,        \* number of requests, consents and token events started so far
  w,          \* per request / callback in flight: position and local variables
  last,       \* the operation that completed last, with its outcome
  remote,     \* Google Tasks: the tasks of the task list, in list order
  sent,       \* Google Tasks: request bodies of the tasks.update calls made so far
  tg,         \* toggleTaskCompletion request in flight: position and local variables
  ltasks,     \* Task collection of the local task API
  build,      \* which middleware modules the routes loaded: "full" or "fallback"
  requests,   \* rateLimitFallback: Map key -> timestamps of the admitted requests
  reached,    \* per client key, arrival times of the requests that reached a Gmail handler
  wr,         \* provider call wrappers in flight: position and local variables
  calls,      \* remote API calls issued so far, with the client each was handed
  rcache,     \* response cache of the fallback middleware, per resource (one key each)
  version,    \* per resource, the number of writes the provider has applied
  rq,         \* HTTP requests on the cached routes in flight
  written,    \* per resource, the latest write whose request has completed with success
  served,     \* the GET answered last: its data and whether it came from the cache
  tk,         \* update and delete requests of the local task API between find and write
  tres        \* the response of the local task API sent last

vars == <<now, ticks, store, cache, pool, creds, instClient, nextTok, ops, w, last,
          remote, sent, tg, ltasks, build, requests, reached, wr, calls,
          rcache, version, rq, written, served, tk, tres>>

\* the variables of the provider call wrappers
more == <<wr, calls, rcache, version, rq, written, served, tk, tres>>

\* the variables of the Google Tasks controller, the local task API and the routes
side == <<remote, sent, tg, ltasks, build, requests, reached, more>>

\* ---- values --------------------------------------------------------------
NoTokens == [access_token |-> None, refresh_token |-> None, expiry_date |-> None]
NoCred == [access_token |-> None, refresh_token |-> None, expiry_date |-> None, expires_in |-> None]
NoGoogleTokens == [accessToken |-> None, refreshToken |-> None, accessTokenExpiry |-> None, expiryDate |-> None]
NoUser == [exists |-> FALSE, googleTokens |-> NoGoogleTokens]
NoEntry == [has |-> FALSE, value |-> NoTokens, expires |-> None]

IdleW == [op |-> "idle", pc |-> "idle", user |-> None, tokens |-> NoTokens,
          src |-> "", onFile |-> FALSE, after |-> None, tchk |-> None, rtRead |-> None, respRt |-> None,
          doc |-> NoUser, cred |-> NoCred, client |-> None, exch |-> 0, wrote |-> FALSE,
          err |-> "", result |-> None]

\* a || b of JavaScript on values whose falsy element is None
Or(a, b) == IF a # None THEN a ELSE b

\* a field that a Google Tasks resource or request body does not carry
Absent == "<absent>"

\* no task: the result of a find that matched nothing
NoTask == [id |-> None, title |-> Absent, notes |-> Absent, status |-> Absent,
           due |-> Absent, parent |-> Absent, completed |-> None]

\* no toggle request in flight; was is the remote task as it stood when the
\* request listed the tasks, before the remote task as it stood when the update
\* of the request reached it, code the HTTP status of the response
IdleToggle == [pc |-> "idle", taskId |-> None, currentTask |-> NoTask, was |-> NoTask,
               before |-> NoTask, code |-> None, updates |-> 0]

\* two client keys (req.ip)
Clients == {1, 2}

\* a JavaScript value in a number position: undefined, NaN or an integer
Undefined == [kind |-> "undefined", v |-> 0]

NaN == [kind |-> "NaN", v |-> 0]

Num(v) == [kind |-> "number", v |-> v]

\* no wrapper call in this slot
IdleWrapper == [pc |-> "idle", name |-> "", user |-> None, maxResults |-> Undefined,
                proc |-> None, onFile |-> FALSE, client |-> None, issued |-> 0,
                dropped |-> 0, err |-> ""]

\* wrapper calls in flight at the same time
Slots == 1..NumProcs

\* the resources with a cached GET route and invalidating write routes
Resources == {"calendar", "gtasks"}

\* no cached response
NoResponse == [has |-> FALSE, data |-> None, expires |-> None]

\* no HTTP request in this slot
IdleRequest == [kind |-> "", pc |-> "idle", resource |-> "", ok |-> FALSE, data |-> None]

\* no document: findById of an unknown or deleted id
NoDoc == [status |-> Absent, isCompleted |-> FALSE, createdBy |-> None, assignedTo |-> None,
          deleted |-> TRUE]

\* a request without a body
NoBody == [status |-> Absent, hasIsCompleted |-> FALSE, isCompleted |-> FALSE,
           assignedTo |-> None, createdBy |-> None]

\* no task request between find and write in this slot
IdleTask == [pc |-> "idle", op |-> "", user |-> None, id |-> None, body |-> NoBody, seen |-> NoDoc]

\* no response sent yet
NoAnswer == [op |-> "", user |-> None, id |-> None, status |-> None, seen |-> NoDoc,
             before |-> NoDoc, wrote |-> FALSE, list |-> <<>>]

MoreIdle ==
  /\ tk = [i \in Slots |-> IdleTask]
  /\ tres = NoAnswer
  /\ wr = [k \in Slots |-> IdleWrapper]
  /\ calls = <<>>
  /\ rcache = [r \in Resources |-> NoResponse]
  /\ version = [r \in Resources |-> 0]
  /\ rq = [i \in Slots |-> IdleRequest]
  /\ written = [r \in Resources |-> 0]
  /\ served = [fromCache |-> FALSE, resource |-> "", data |-> None, completed |-> 0]

\* the parts of the system that the token lifecycle does not touch, at rest
SideIdle ==
  /\ remote = <<>>
  /\ sent = <<>>
  /\ tg = IdleToggle
  /\ ltasks = <<>>
  /\ build = "full"
  /\ requests = [k \in Clients |-> <<>>]
  /\ reached = [k \in Clients |-> <<>>]
  /\ MoreIdle

\* ---- tokenCache (Map fallback) --------------------------------------------
CacheSet(c, u, value, ttl, t) ==
  [c EXCEPT ![u] = [has |-> TRUE, value |-> value,
                    expires |-> IF ttl # None THEN t + ttl * 1000 ELSE t + 3600000]]

CacheHit(c, u, t) == c[u].has /\ c[u].expires > t

CacheGetValue(c, u, t) == IF CacheHit(c, u, t) THEN c[u].value ELSE NoTokens

CacheAfterGet_Keep(c, u, t) == c

\* get() deletes an expired item
CacheAfterGet(c, u, t) == IF c[u].has /\ ~(c[u].expires > t) THEN [c EXCEPT ![u] = NoEntry] ELSE c

CacheDel(c, u) == [c EXCEPT ![u] = NoEntry]

\* ---- oauthClientPool -------------------------------------------------------
PoolHas(pl, u) == \E i \in 1..Len(pl) : pl[i].key = u

PoolGet(pl, u) == pl[CHOOSE i \in 1..Len(pl) : pl[i].key = u].client

GetOAuthClient_AlwaysSet(pl, cr, u, tokens) ==
  IF PoolHas(pl, u)
  THEN LET c == PoolGet(pl, u)
       IN [pool |-> pl, creds |-> [cr EXCEPT ![c] = tokens], client |-> c]
  ELSE LET c == Len(cr) + 1
           pl1 == IF Len(pl) > PoolCap THEN Tail(pl) ELSE pl
       IN [pool |-> Append(pl1, [key |-> u, client |-> c]),
           creds |-> Append(cr, tokens),
           client |-> c]

\* getOAuthClient(userId, tokens); tokens = NoTokens stands for an omitted argument
GetOAuthClient(pl, cr, u, tokens) ==
  IF PoolHas(pl, u)
  THEN LET c == PoolGet(pl, u)
       IN [pool |-> pl,
           creds |-> IF tokens # NoTokens THEN [cr EXCEPT ![c] = tokens] ELSE cr,
           client |-> c]
  ELSE LET c == Len(cr) + 1
           pl1 == IF Len(pl) > PoolCap THEN Tail(pl) ELSE pl
       IN [pool |-> Append(pl1, [key |-> u, client |-> c]),
           creds |-> Append(cr, tokens),
           client |-> c]

\* ---- setupClient ------------------------------------------------------------
\* tokens built from the user document read with the token fields selected
TokensOfUser(user) ==
  [access_token |-> user.googleTokens.accessToken,
   refresh_token |-> user.googleTokens.refreshToken,
   expiry_date |-> Or(user.googleTokens.accessTokenExpiry, user.googleTokens.expiryDate)]

HasAccessToken(user) == user.exists /\ user.googleTokens.accessToken # None

NeedsRefresh_Seconds(tokens, t) ==
  tokens.expiry_date # None /\ tokens.expiry_date - t < RefreshMarginMs * 1000

NeedsRefresh_NotYetExpired(tokens, t) ==
  tokens.expiry_date # None /\ tokens.expiry_date - t < RefreshMarginMs /\ tokens.expiry_date > t

\* timeUntilExpiry < 300000; an absent expiry gives NaN, which compares false
NeedsRefresh(tokens, t) ==
  tokens.expiry_date # None /\ tokens.expiry_date - t < RefreshMarginMs

UpdateData_KeepExpiry(gt, tokens, t) ==
  [accessToken |-> tokens.access_token,
   accessTokenExpiry |-> gt.accessTokenExpiry,
   expiryDate |-> gt.expiryDate,
   refreshToken |-> IF tokens.refresh_token # None THEN tokens.refresh_token ELSE gt.refreshToken]

\* ---- updateUserTokens --------------------------------------------------------
UpdateData(gt, tokens, t) ==
  [accessToken |-> tokens.access_token,
   accessTokenExpiry |-> t + Or(tokens.expires_in, DefaultExpiresInSec) * 1000,
   expiryDate |-> t + Or(tokens.expires_in, DefaultExpiresInSec) * 1000,
   refreshToken |-> IF tokens.refresh_token # None THEN tokens.refresh_token ELSE gt.refreshToken]

\* User.findByIdAndUpdate: no document, no change
FindByIdAndUpdate(st, u, tokens, t) ==
  IF st[u].exists
  THEN [st EXCEPT ![u].googleTokens = UpdateData(st[u].googleTokens, tokens, t)]
  ELSE st

CacheTokens_RelativeExpiry(tokens, t) ==
  [access_token |-> tokens.access_token,
   refresh_token |-> tokens.refresh_token,
   expiry_date |-> Or(tokens.expires_in, DefaultExpiresInSec) * 1000]


CacheTokens(tokens, t) ==
  [access_token |-> tokens.access_token,
   refresh_token |-> tokens.refresh_token,
   expiry_date |-> t + Or(tokens.expires_in, DefaultExpiresInSec) * 1000]

\* ---- refreshToken --------------------------------------------------------------
HasRefreshToken_UserOnly(user) == user.exists

\* !(!user || !user.googleTokens || !user.googleTokens.refreshToken)
HasRefreshToken(user) == user.exists /\ user.googleTokens.refreshToken # None

MergeCredentials_NoMerge(credentials, user) == credentials

\* credentials.refresh_token is filled from the document read before the exchange
MergeCredentials(credentials, user) ==
  IF credentials.refresh_token = None
  THEN [credentials EXCEPT !.refresh_token = user.googleTokens.refreshToken]
  ELSE credentials

\* the catch block replaces every error by one message
RefreshCatchError(error) == ErrRefreshFailed

RefreshCatchCache_Keep(c, u) == c


RefreshCatchCache(c, u) == CacheDel(c, u)

\* ---- provider ---------------------------------------------------------------------
ProviderResponse(tok, withRefresh, t) ==
  [access_token |-> tok,
   refresh_token |-> IF withRefresh THEN tok ELSE None,
   expiry_date |-> t + ProviderExpiresInSec * 1000,
   expires_in |-> ProviderExpiresInSec]

\* ---- Init ---------------------------------------------------------------------------
\* a user is unknown, known without Google tokens, or has the tokens of an
\* earlier consent (access token u, with or without a refresh token)
InitUsers ==
  {NoUser, [exists |-> TRUE, googleTokens |-> NoGoogleTokens]} \cup
  {[exists |-> TRUE,
    googleTokens |-> [accessToken |-> 1, refreshToken |-> r, accessTokenExpiry |-> e, expiryDate |-> e]] :
      r \in {None, 1}, e \in InitExpiries}

InitUser(u, rec) ==
  IF rec.googleTokens.accessToken = None THEN rec
  ELSE [rec EXCEPT !.googleTokens.accessToken = u,
                   !.googleTokens.refreshToken = IF @ = None THEN None ELSE u]

Init ==
  /\ now = StartTime
  /\ ticks = 0
  /\ \E f \in [Users -> InitUsers] : store = [u \in Users |-> InitUser(u, f[u])]
  /\ cache = [u \in Users |-> NoEntry]
  /\ pool = <<>>
  /\ creds = <<>>
  /\ instClient = None
  /\ nextTok = FirstNewToken
  /\ ops = 0
  /\ w = [p \in Procs |-> IdleW]
  /\ last = IdleW
  /\ SideIdle

\* a new request, consent or event is served by the first idle worker
Free(p) == w[p].pc = "idle" /\ \A q \in Procs : q < p => w[q].pc # "idle"

\* expiry of the access token that the setupClient call completed just before
\* obtained for u by a refresh, None if the last completed operation is no such call
PreviousRefresh(u) ==
  IF last.op = "ensure" /\ last.user = u /\ last.pc = "returned" /\ last.exch = 1
  THEN last.cred.expiry_date ELSE None

\* the operation of worker p ends with the outcome rec
Complete(p, rec) ==
  /\ w' = [w EXCEPT ![p] = IdleW]
  /\ last' = rec

\* ---- setupClient(userId) ----------------------------------------------------------
\* lines 130-148: pool the client under this.oauth2Client, then either return it
\* or go on to refreshToken
SetupAcquire(p, u, tokens, from, c) ==
  LET g == GetOAuthClient(pool, creds, u, tokens)
      rec == [IdleW EXCEPT !.op = "ensure", !.user = u, !.tokens = tokens, !.src = from,
                           !.onFile = IF from = "cache" THEN HasAccessToken(store[u]) ELSE w[p].onFile,
                           !.after = IF from = "cache" THEN PreviousRefresh(u) ELSE w[p].after,
                           !.tchk = now, !.client = g.client]
  IN /\ cache' = c
     /\ pool' = g.pool
     /\ creds' = g.creds
     /\ instClient' = g.client
     /\ IF NeedsRefresh(tokens, now)
        THEN /\ w' = [w EXCEPT ![p] = [rec EXCEPT !.pc = "rt_read"]]
             /\ UNCHANGED last
        ELSE Complete(p, [rec EXCEPT !.pc = "returned", !.result = g.client])

\* lines 100-106 on a cache hit (no await up to line 145), or up to the await
\* of User.findById on a miss
SetupStart(p, u) ==
  /\ Free(p)
  /\ ops < MaxOps
  /\ ops' = ops + 1
  /\ IF CacheHit(cache, u, now)
     THEN SetupAcquire(p, u, CacheGetValue(cache, u, now), "cache", CacheAfterGet(cache, u, now))
     ELSE /\ cache' = CacheAfterGet(cache, u, now)
          /\ w' = [w EXCEPT ![p] = [IdleW EXCEPT !.op = "ensure", !.user = u, !.pc = "db_read",
                                                 !.after = PreviousRefresh(u)]]
          /\ UNCHANGED <<pool, creds, instClient, last>>
  /\ UNCHANGED <<now, ticks, store, nextTok>>

\* lines 107-111: the store answers User.findById(...).select(...).lean()
SetupDbRead(p) ==
  /\ w[p].pc = "db_read"
  /\ w' = [w EXCEPT ![p].pc = "db_cont", ![p].doc = store[w[p].user],
                    ![p].onFile = HasAccessToken(store[w[p].user])]
  /\ UNCHANGED <<now, ticks, store, cache, pool, creds, instClient, nextTok, ops, last>>

\* lines 113-128 once the await resumed
SetupDbCont(p) ==
  /\ w[p].pc = "db_cont"
  /\ LET u == w[p].user
         user == w[p].doc
     IN IF ~HasAccessToken(user)
        THEN /\ Complete(p, [w[p] EXCEPT !.pc = "failed", !.src = "store", !.doc = NoUser,
                                         !.err = ErrNoTokens])
             /\ UNCHANGED <<cache, pool, creds, instClient>>
        ELSE SetupAcquire(p, u, TokensOfUser(user), "store",
                          CacheSet(cache, u, TokensOfUser(user), CacheTtlSec, now))
  /\ UNCHANGED <<now, ticks, store, nextTok, ops>>

\* ---- refreshToken(userId) ------------------------------------------------------------
\* lines 222-224: the store answers User.findById(...).select(...).lean()
RefreshRead(p) ==
  /\ w[p].pc = "rt_read"
  /\ w' = [w EXCEPT ![p].pc = "rt_cont", ![p].doc = store[w[p].user]]
  /\ UNCHANGED <<now, ticks, store, cache, pool, creds, instClient, nextTok, ops, last>>

\* lines 226-235 once the await resumed
RefreshCont(p) ==
  /\ w[p].pc = "rt_cont"
  /\ LET u == w[p].user
         user == w[p].doc
     IN IF ~HasRefreshToken(user)
        THEN /\ cache' = RefreshCatchCache(cache, u)
             /\ Complete(p, [w[p] EXCEPT !.pc = "failed", !.doc = NoUser,
                                         !.err = RefreshCatchError(ErrNoRefreshToken)])
             /\ UNCHANGED <<pool, creds>>
        ELSE LET g == GetOAuthClient(pool, creds, u, NoTokens)
             IN /\ pool' = g.pool
                /\ creds' = [g.creds EXCEPT ![g.client] =
                               [NoTokens EXCEPT !.refresh_token = user.googleTokens.refreshToken]]
                /\ w' = [w EXCEPT ![p].pc = "exchange", ![p].client = g.client, ![p].doc = NoUser,
                                  ![p].rtRead = user.googleTokens.refreshToken]
                /\ UNCHANGED <<cache, last>>
  /\ UNCHANGED <<now, ticks, store, instClient, nextTok, ops>>

\* lines 237-242: oauth2Client.refreshAccessToken() answered by the provider
ExchangeOk(p, withRefresh) ==
  /\ w[p].pc = "exchange"
  /\ LET credentials == ProviderResponse(nextTok, withRefresh, now)
         user == [exists |-> TRUE,
                  googleTokens |-> [NoGoogleTokens EXCEPT !.refreshToken = w[p].rtRead]]
     IN w' = [w EXCEPT ![p].pc = "persist", ![p].exch = @ + 1,
                       ![p].respRt = credentials.refresh_token,
                       ![p].cred = MergeCredentials(credentials, user)]
  /\ nextTok' = nextTok + 1
  /\ UNCHANGED <<now, ticks, store, cache, pool, creds, instClient, ops, last>>

\* lines 258-267: the exchange rejected (network or provider error)
ExchangeFail(p) ==
  /\ w[p].pc = "exchange"
  /\ cache' = RefreshCatchCache(cache, w[p].user)
  /\ Complete(p, [w[p] EXCEPT !.pc = "failed", !.exch = @ + 1,
                              !.err = RefreshCatchError(ErrProvider)])
  /\ UNCHANGED <<now, ticks, store, pool, creds, instClient, nextTok, ops>>

\* ---- updateUserTokens(userId, tokens) ---------------------------------------------------
\* lines 158-176: User.findByIdAndUpdate
Persist(p) ==
  /\ w[p].pc = "persist"
  /\ store' = FindByIdAndUpdate(store, w[p].user, w[p].cred, now)
  /\ w' = [w EXCEPT ![p].pc = "cache_set", ![p].wrote = TRUE]
  /\ UNCHANGED <<now, ticks, cache, pool, creds, instClient, nextTok, ops, last>>

\* lines 179-190: after syncTokensWithSession (req is null in every caller)
UpdateCache(p) ==
  /\ w[p].pc = "cache_set"
  /\ cache' = CacheSet(cache, w[p].user, CacheTokens(w[p].cred, now), CacheTtlSec, now)
  /\ w' = [w EXCEPT ![p].pc = IF w[p].op = "ensure" THEN "rt_finish" ELSE "cb_cache"]
  /\ UNCHANGED <<now, ticks, store, pool, creds, instClient, nextTok, ops, last>>

\* lines 247-257: refreshToken after updateUserTokens returned
RefreshFinish(p) ==
  /\ w[p].pc = "rt_finish"
  /\ creds' = [creds EXCEPT ![w[p].client] =
                 [access_token |-> w[p].cred.access_token,
                  refresh_token |-> w[p].cred.refresh_token,
                  expiry_date |-> w[p].cred.expiry_date]]
  /\ instClient' = w[p].client
  /\ w' = [w EXCEPT ![p].pc = "setup_return"]
  /\ UNCHANGED <<now, ticks, store, cache, pool, nextTok, ops, last>>

\* line 148: setupClient resumes after await this.refreshToken(...)
SetupReturn(p) ==
  /\ w[p].pc = "setup_return"
  /\ Complete(p, [w[p] EXCEPT !.pc = "returned", !.result = instClient])
  /\ UNCHANGED <<now, ticks, store, cache, pool, creds, instClient, nextTok, ops>>

\* ---- SDK auto-refresh: oauth2Client.on("tokens") -------------------------------------
\* the pooled client of u refreshed by itself (it needs a refresh token for
\* that) and hands the provider's answer to the listener of lines 72-77
TokensEvent(p, u, withRefresh) ==
  /\ Free(p)
  /\ ops < MaxOps
  /\ ops' = ops + 1
  /\ PoolHas(pool, u)
  /\ creds[PoolGet(pool, u)].refresh_token # None
  /\ LET c == PoolGet(pool, u)
         newTokens == ProviderResponse(nextTok, withRefresh, now)
     IN /\ creds' = [creds EXCEPT ![c] =
                      [access_token |-> newTokens.access_token,
                       refresh_token |-> Or(newTokens.refresh_token, creds[c].refresh_token),
                       expiry_date |-> newTokens.expiry_date]]
        /\ w' = [w EXCEPT ![p] = [IdleW EXCEPT !.op = "callback", !.user = u, !.pc = "persist",
                                               !.client = c, !.cred = newTokens,
                                               !.respRt = newTokens.refresh_token]]
  /\ nextTok' = nextTok + 1
  /\ UNCHANGED <<now, ticks, store, cache, pool, instClient, last>>

\* lines 79-88: the listener's own cache write after updateUserTokens returned
CallbackCacheTokens(newTokens, t) ==
  [access_token |-> newTokens.access_token,
   refresh_token |-> newTokens.refresh_token,
   expiry_date |-> Or(newTokens.expiry_date, t + 3600000)]

CallbackCache(p) ==
  /\ w[p].pc = "cb_cache"
  /\ cache' = CacheSet(cache, w[p].user, CallbackCacheTokens(w[p].cred, now), CacheTtlSec, now)
  /\ Complete(p, [w[p] EXCEPT !.pc = "done"])
  /\ UNCHANGED <<now, ticks, store, pool, creds, instClient, nextTok, ops>>

ConsentTokenData_Overwrite(accessToken, refreshToken, user, t) ==
  [accessToken |-> accessToken,
   refreshToken |-> refreshToken,
   accessTokenExpiry |-> t + ConsentExpiryMs,
   expiryDate |-> t + ConsentExpiryMs]

\* ---- OAuth consent: GoogleStrategy verify callback -------------------------------------
\* refreshToken || user.googleTokens?.refreshToken, with the expiries of "now"
ConsentTokenData(accessToken, refreshToken, user, t) ==
  [accessToken |-> accessToken,
   refreshToken |-> Or(refreshToken, user.googleTokens.refreshToken),
   accessTokenExpiry |-> t + ConsentExpiryMs,
   expiryDate |-> t + ConsentExpiryMs]

\* the provider delivers (accessToken, refreshToken or nothing); User.findOne resolved
ConsentRead(p, u, withRefresh) ==
  /\ Free(p)
  /\ ops < MaxOps
  /\ ops' = ops + 1
  /\ LET user == store[u]
         refreshToken == IF withRefresh THEN nextTok ELSE None
     IN w' = [w EXCEPT ![p] =
          [IdleW EXCEPT !.op = "consent", !.user = u,
                        !.pc = IF user.exists THEN "consent_save" ELSE "consent_create",
                        !.rtRead = user.googleTokens.refreshToken,
                        !.respRt = refreshToken,
                        !.cred = [access_token |-> nextTok, refresh_token |-> refreshToken,
                                  expiry_date |-> now, expires_in |-> None]]]
  /\ nextTok' = nextTok + 1
  /\ UNCHANGED <<now, ticks, store, cache, pool, creds, instClient, last>>

\* user.googleTokens = tokenData; await user.save()
ConsentSave(p) ==
  /\ w[p].pc = "consent_save"
  /\ LET u == w[p].user
         user == [exists |-> TRUE,
                  googleTokens |-> [NoGoogleTokens EXCEPT !.refreshToken = w[p].rtRead]]
     IN store' = [store EXCEPT ![u].googleTokens =
                    ConsentTokenData(w[p].cred.access_token, w[p].cred.refresh_token,
                                     user, w[p].cred.expiry_date)]
  /\ Complete(p, [w[p] EXCEPT !.pc = "done", !.wrote = TRUE])
  /\ UNCHANGED <<now, ticks, cache, pool, creds, instClient, nextTok, ops>>

\* User.create; the unique index on email rejects a second document
ConsentCreate(p) ==
  /\ w[p].pc = "consent_create"
  /\ LET u == w[p].user
     IN IF store[u].exists
        THEN /\ Complete(p, [w[p] EXCEPT !.pc = "failed", !.err = "E11000 duplicate key"])
             /\ UNCHANGED store
        ELSE /\ store' = [store EXCEPT ![u] =
                  [exists |-> TRUE,
                   googleTokens |-> ConsentTokenData(w[p].cred.access_token, w[p].cred.refresh_token,
                                                     NoUser, w[p].cred.expiry_date)]]
             /\ Complete(p, [w[p] EXCEPT !.pc = "done", !.wrote = TRUE])
  /\ UNCHANGED <<now, ticks, cache, pool, creds, instClient, nextTok, ops>>

\* ---- disconnectGoogle ----------------------------------------------------------------------
\* $unset googleTokens on the authenticated user's document
Disconnect(u) ==
  /\ store[u].exists
  /\ store' = [store EXCEPT ![u].googleTokens = NoGoogleTokens]
  /\ UNCHANGED <<now, ticks, cache, pool, creds, instClient, nextTok, ops, w, last>>

\* ---- time ---------------------------------------------------------------------------------
Tick(d) ==
  /\ ticks < MaxTicks
  /\ now' = now + d
  /\ ticks' = ticks + 1
  /\ UNCHANGED <<store, cache, pool, creds, instClient, nextTok, ops, w, last>>

Step(p) ==
  \/ \E u \in Users : SetupStart(p, u)
  \/ SetupDbRead(p)
  \/ SetupDbCont(p)
  \/ RefreshRead(p)
  \/ RefreshCont(p)
  \/ \E withRefresh \in BOOLEAN : ExchangeOk(p, withRefresh)
  \/ ExchangeFail(p)
  \/ Persist(p)
  \/ UpdateCache(p)
  \/ RefreshFinish(p)
  \/ SetupReturn(p)
  \/ \E u \in Users, withRefresh \in BOOLEAN : TokensEvent(p, u, withRefresh)
  \/ CallbackCache(p)
  \/ \E u \in Users, withRefresh \in BOOLEAN : ConsentRead(p, u, withRefresh)
  \/ ConsentSave(p)
  \/ ConsentCreate(p)

Next ==
  \/ \E p \in Procs : Step(p) /\ UNCHANGED side
  \/ \E u \in Users : Disconnect(u) /\ UNCHANGED side
  \/ \E d \in TickSteps : Tick(d) /\ UNCHANGED side

Spec == Init /\ [][Next]_vars

\* requests served one after the other: nothing starts while another is in flight
AllIdle == \A q \in Procs : w[q].pc = "idle"

Quiet(p) == \A q \in Procs \ {p} : w[q].pc = "idle"

SeqNext ==
  \/ \E p \in Procs : Quiet(p) /\ Step(p) /\ UNCHANGED side
  \/ \E u \in Users : AllIdle /\ Disconnect(u) /\ UNCHANGED side
  \/ \E d \in TickSteps : Tick(d) /\ UNCHANGED side

SeqSpec == Init /\ [][SeqNext]_vars

\* ---- oauthClientPool under many users ------------------------------------------------
\* getOAuthClient called directly, on a pool that earlier requests of PoolFill
\* distinct users have filled in the order of their ids
PoolFills == {PoolCap - 1, PoolCap}

\* the users that ask next: the oldest and the newest pooled one, and new ones
AcquireUsers == {1, PoolCap - 1, PoolCap + 1, PoolCap + 2}

SnapshotOf(u, k) == [access_token |-> u + k, refresh_token |-> u, expiry_date |-> StartTime + k]

PoolInit ==
  /\ now = StartTime
  /\ ticks = 0
  /\ store = [u \in Users |-> NoUser]
  /\ cache = [u \in Users |-> NoEntry]
  /\ \E n \in PoolFills :
       /\ pool = [i \in 1..n |-> [key |-> i, client |-> i]]
       /\ creds = [i \in 1..n |-> SnapshotOf(i, 0)]
  /\ instClient = None
  /\ nextTok = FirstNewToken
  /\ ops = 0
  /\ w = [p \in Procs |-> IdleW]
  /\ last = IdleW
  /\ SideIdle

\* one call getOAuthClient(userId, tokens); last keeps its arguments and its result
Acquire(u, tokens) ==
  /\ ops < MaxAcquires
  /\ ops' = ops + 1
  /\ LET g == GetOAuthClient(pool, creds, u, tokens)
     IN /\ pool' = g.pool
        /\ creds' = g.creds
        /\ last' = [IdleW EXCEPT !.op = "acquire", !.user = u, !.tokens = tokens,
                                 !.client = g.client, !.result = g.client]
  /\ UNCHANGED <<now, ticks, store, cache, instClient, nextTok, w>>

PoolNext ==
  \E u \in AcquireUsers :
    \E tokens \in {NoTokens, SnapshotOf(u, 1), SnapshotOf(u, 2)} :
      Acquire(u, tokens) /\ UNCHANGED side

PoolSpec == PoolInit /\ [][PoolNext]_vars

\* ---- Google Tasks: toggleTaskCompletion ----------------------------------------------
\* shapes of the two tasks under test: the first and the last of the list
TaskShapes ==
  [status : {"needsAction", "completed"}, notes : {Absent, "x"},
   due : {Absent, "2024-01-01"}, parent : {Absent, "p"}]

RemoteTask(id, title, sh) ==
  [id |-> id, title |-> title, notes |-> sh.notes, status |-> sh.status,
   due |-> sh.due, parent |-> sh.parent,
   completed |-> IF sh.status = "completed" THEN StartTime - 1000 ELSE None]

\* lengths of the task list: short, and one more than a list call returns
ListLengths == {2, ListCap + 1}

\* ids asked for: the first task, the second, and the one past the cap
ToggleTargets == {1, 2, ListCap + 1}

ToggleInit ==
  /\ now = StartTime
  /\ ticks = 0
  /\ store = [u \in Users |-> NoUser]
  /\ cache = [u \in Users |-> NoEntry]
  /\ pool = <<>>
  /\ creds = <<>>
  /\ instClient = None
  /\ nextTok = FirstNewToken
  /\ ops = 0
  /\ w = [p \in Procs |-> IdleW]
  /\ last = IdleW
  /\ \E n \in ListLengths, first \in TaskShapes, final \in TaskShapes :
       remote = [i \in 1..n |->
                   IF i = 1 THEN RemoteTask(1, "a", first)
                   ELSE IF i = n THEN RemoteTask(n, "b", final)
                   ELSE RemoteTask(i, "f", [status |-> "needsAction", notes |-> Absent,
                                            due |-> Absent, parent |-> Absent])]
  /\ sent = <<>>
  /\ tg = IdleToggle
  /\ ltasks = <<>>
  /\ build = "full"
  /\ requests = [k \in Clients |-> <<>>]
  /\ reached = [k \in Clients |-> <<>>]
  /\ MoreIdle

\* googleApiService.getTasks with the default options: one tasks.list call with
\* maxResults = min(100, 100), no page token, so the first ListCap items
GetTasks(rem) == SubSeq(rem, 1, IF Len(rem) < ListCap THEN Len(rem) ELSE ListCap)

\* tasks.find((task) => task.id === taskId)
FindTask(tasks, taskId) ==
  IF \E i \in 1..Len(tasks) : tasks[i].id = taskId
  THEN tasks[CHOOSE i \in 1..Len(tasks) : tasks[i].id = taskId]
  ELSE NoTask

\* currentTask.notes || ""
NotesOrEmpty(notes) == IF notes \in {Absent, ""} THEN "" ELSE notes

ToggleUpdateData_StatusOnly(currentTask, t) ==
  LET newStatus == IF currentTask.status = "completed" THEN "needsAction" ELSE "completed"
  IN [title |-> Absent,
      notes |-> Absent,
      status |-> newStatus,
      due |-> Absent,
      parent |-> Absent,
      completed |-> IF newStatus = "completed" THEN t ELSE None]

\* updateData of toggleTaskCompletion, built from the task that was read
ToggleUpdateData(currentTask, t) ==
  LET newStatus == IF currentTask.status = "completed" THEN "needsAction" ELSE "completed"
  IN [title |-> currentTask.title,
      notes |-> NotesOrEmpty(currentTask.notes),
      status |-> newStatus,
      due |-> currentTask.due,
      parent |-> currentTask.parent,
      completed |-> IF newStatus = "completed" THEN t ELSE None]

\* updateTask: requestBody is { id: taskId, ...taskData }
TaskDataWithId(taskId, taskData) ==
  [id |-> taskId, title |-> taskData.title, notes |-> taskData.notes, status |-> taskData.status,
   due |-> taskData.due, parent |-> taskData.parent, completed |-> taskData.completed]

\* the request up to the answer of getTasks: 404 when find matches nothing
ToggleList(taskId) ==
  /\ tg.pc = "idle"
  /\ ops < MaxToggles
  /\ ops' = ops + 1
  /\ LET currentTask == FindTask(GetTasks(remote), taskId)
         was == FindTask(remote, taskId)
     IN tg' = IF currentTask = NoTask
              THEN [IdleToggle EXCEPT !.taskId = taskId, !.was = was, !.code = 404]
              ELSE [IdleToggle EXCEPT !.pc = "update", !.taskId = taskId, !.was = was,
                                      !.currentTask = currentTask]
  /\ UNCHANGED <<now, ticks, store, cache, pool, creds, instClient, nextTok, w, last>>
  /\ UNCHANGED <<remote, sent, ltasks, build, requests, reached>>
  /\ UNCHANGED more

\* tasks.update replaces the remote resource by the request body; then 200
ToggleUpdate ==
  /\ tg.pc = "update"
  /\ LET body == TaskDataWithId(tg.taskId, ToggleUpdateData(tg.currentTask, now))
     IN /\ sent' = Append(sent, body)
        /\ remote' = [i \in 1..Len(remote) |-> IF remote[i].id = tg.taskId THEN body ELSE remote[i]]
  /\ tg' = [tg EXCEPT !.pc = "idle", !.code = 200, !.updates = @ + 1,
                       !.before = FindTask(remote, tg.taskId)]
  /\ UNCHANGED <<now, ticks, store, cache, pool, creds, instClient, nextTok, ops, w, last>>
  /\ UNCHANGED <<ltasks, build, requests, reached>>
  /\ UNCHANGED more

\* the fields another update can change
EditFields == {"title", "notes", "due", "status"}

\* the task after another update has changed one field of it
Edited(task, field, t) ==
  CASE field = "title" -> [task EXCEPT !.title = "z"]
    [] field = "notes" -> [task EXCEPT !.notes = "y"]
    [] field = "due" -> [task EXCEPT !.due = "2024-02-02"]
    [] field = "status" ->
         IF task.status = "completed"
         THEN [task EXCEPT !.status = "needsAction", !.completed = None]
         ELSE [task EXCEPT !.status = "completed", !.completed = t]

\* another update to the task (by another request or another client of the
\* account) lands between the read and the write of a toggle
RemoteEdit(field) ==
  /\ tg.pc = "update"
  /\ \E i \in 1..Len(remote) :
       /\ remote[i].id = tg.taskId
       /\ Edited(remote[i], field, now) # remote[i]
       /\ remote' = [remote EXCEPT ![i] = Edited(remote[i], field, now)]
  /\ UNCHANGED <<now, ticks, store, cache, pool, creds, instClient, nextTok, ops, w, last>>
  /\ UNCHANGED <<sent, tg, ltasks, build, requests, reached>>
  /\ UNCHANGED more

ToggleNext ==
  \/ \E taskId \in ToggleTargets : ToggleList(taskId)
  \/ ToggleUpdate
  \/ \E field \in EditFields : RemoteEdit(field)

ToggleSpec == ToggleInit /\ [][ToggleNext]_vars

\* ---- default reads of the User collection --------------------------------------------
\* the schema marks googleTokens.accessToken and googleTokens.refreshToken with
\* select: false; models/User.js does not
TokensSelectFalse == FALSE

\* User.findById(id) with no .select(): fields marked select: false are left out
DefaultRead(user) ==
  IF TokensSelectFalse
  THEN [user EXCEPT !.googleTokens.accessToken = None, !.googleTokens.refreshToken = None]
  ELSE user

\* GET /api/auth/me: the document of the default read is the response body
GetMe(u) ==
  /\ AllIdle
  /\ ops < MaxOps
  /\ ops' = ops + 1
  /\ store[u].exists
  /\ last' = [IdleW EXCEPT !.op = "getMe", !.pc = "done", !.user = u, !.doc = DefaultRead(store[u])]
  /\ UNCHANGED <<now, ticks, store, cache, pool, creds, instClient, nextTok, w>>

\* passport.deserializeUser: the document of the default read becomes req.user
DeserializeUser(u) ==
  /\ AllIdle
  /\ ops < MaxOps
  /\ ops' = ops + 1
  /\ last' = [IdleW EXCEPT !.op = "deserialize", !.pc = "done", !.user = u, !.doc = DefaultRead(store[u])]
  /\ UNCHANGED <<now, ticks, store, cache, pool, creds, instClient, nextTok, w>>

ReadNext ==
  \/ SeqNext
  \/ \E u \in Users : GetMe(u) /\ UNCHANGED side
  \/ \E u \in Users : DeserializeUser(u) /\ UNCHANGED side

ReadSpec == Init /\ [][ReadNext]_vars

\* ---- the token lifecycle at rest -------------------------------------------------------
\* no user known, nothing cached or pooled, no request in flight
CoreIdle ==
  /\ now = StartTime
  /\ ticks = 0
  /\ store = [u \in Users |-> NoUser]
  /\ cache = [u \in Users |-> NoEntry]
  /\ pool = <<>>
  /\ creds = <<>>
  /\ instClient = None
  /\ nextTok = FirstNewToken
  /\ ops = 0
  /\ w = [p \in Procs |-> IdleW]
  /\ last = IdleW

\* ---- local task API: Task model, createTask, updateTask ----------------------------------
Statuses == {"pending", "in-progress", "completed", "cancelled"}

\* req.body as far as status and isCompleted go; a field may be missing
TaskBodies ==
  [status : Statuses \cup {Absent, "done"}, hasIsCompleted : BOOLEAN, isCompleted : BOOLEAN]

\* express-validator: status is optional and must be one of the enum values
ValidBody(body) == body.status \in Statuses \cup {Absent}

\* taskSchema.pre("save")
PreSave(doc) == [doc EXCEPT !.isCompleted = (doc.status = "completed")]

\* the fields of body laid over doc
Overlay(doc, body) ==
  [status |-> IF body.status # Absent THEN body.status ELSE doc.status,
   isCompleted |-> IF body.hasIsCompleted THEN body.isCompleted ELSE doc.isCompleted]

\* schema defaults of a new document
NewTask == [status |-> "pending", isCompleted |-> FALSE]

LocalInit ==
  /\ CoreIdle
  /\ remote = <<>>
  /\ sent = <<>>
  /\ tg = IdleToggle
  /\ ltasks = <<>>
  /\ build = "full"
  /\ requests = [k \in Clients |-> <<>>]
  /\ reached = [k \in Clients |-> <<>>]
  /\ MoreIdle

\* POST /api/tasks: 400 on a validation error, else Task.create(req.body), which saves
CreateTask(body) ==
  /\ ops < MaxTaskOps
  /\ ops' = ops + 1
  /\ Len(ltasks) < MaxTasks
  /\ ltasks' = IF ValidBody(body) THEN Append(ltasks, PreSave(Overlay(NewTask, body))) ELSE ltasks
  /\ UNCHANGED <<now, ticks, store, cache, pool, creds, instClient, nextTok, w, last>>
  /\ UNCHANGED <<remote, sent, tg, build, requests, reached>>
  /\ UNCHANGED more

\* PUT /api/tasks/:id: 400 on a validation error, 404 for an unknown id, else
\* Task.findByIdAndUpdate(id, req.body), which runs no save middleware
UpdateTask(id, body) ==
  /\ ops < MaxTaskOps
  /\ ops' = ops + 1
  /\ ltasks' = IF ValidBody(body) /\ id \in 1..Len(ltasks)
               THEN [ltasks EXCEPT ![id] = Overlay(ltasks[id], body)]
               ELSE ltasks
  /\ UNCHANGED <<now, ticks, store, cache, pool, creds, instClient, nextTok, w, last>>
  /\ UNCHANGED <<remote, sent, tg, build, requests, reached>>
  /\ UNCHANGED more

LocalNext ==
  \/ \E body \in TaskBodies : CreateTask(body)
  \/ \E id \in 1..MaxTasks, body \in TaskBodies : UpdateTask(id, body)

LocalSpec == LocalInit /\ [][LocalNext]_vars

\* ---- Gmail routes: rate limiting ----------------------------------------------------------
\* the name gmailRoutes reads from the middleware module it loaded: rateLimiter.js
\* exports emailLimiter and no emailRateLimit, vercelFallback exports emailRateLimit
EmailRateLimit(b) == IF b = "full" THEN "undefined" ELSE "rateLimitFallback"

\* timestamps.filter((time) => time > windowStart)
Recent(timestamps, windowStart) == SelectSeq(timestamps, LAMBDA time : time > windowStart)

GmailInit ==
  /\ CoreIdle
  /\ remote = <<>>
  /\ sent = <<>>
  /\ tg = IdleToggle
  /\ ltasks = <<>>
  /\ build \in {"full", "fallback"}
  /\ requests = [k \in Clients |-> <<>>]
  /\ reached = [k \in Clients |-> <<>>]
  /\ MoreIdle

\* one authenticated request of client key to a Gmail route; last.pc tells whether
\* it reached the handler or was answered 429
GmailRequest(key) ==
  /\ ops < MaxRequests
  /\ ops' = ops + 1
  /\ IF EmailRateLimit(build) = "undefined"
     THEN /\ reached' = [reached EXCEPT ![key] = Append(@, now)]
          /\ last' = [IdleW EXCEPT !.op = "gmail", !.pc = "handler", !.user = key]
          /\ UNCHANGED requests
     ELSE LET windowStart == now - EmailWindowMs
              cleaned == [k \in Clients |-> Recent(requests[k], windowStart)]
              recentRequests == Recent(cleaned[key], windowStart)
          IN IF Len(recentRequests) >= EmailMax
             THEN /\ requests' = cleaned
                  /\ last' = [IdleW EXCEPT !.op = "gmail", !.pc = "429", !.user = key]
                  /\ UNCHANGED reached
             ELSE /\ requests' = [cleaned EXCEPT ![key] = Append(recentRequests, now)]
                  /\ reached' = [reached EXCEPT ![key] = Append(@, now)]
                  /\ last' = [IdleW EXCEPT !.op = "gmail", !.pc = "handler", !.user = key]
  /\ UNCHANGED <<now, ticks, store, cache, pool, creds, instClient, nextTok, w>>
  /\ UNCHANGED <<remote, sent, tg, ltasks, build>>
  /\ UNCHANGED more

\* the clock moves on by one window
WindowPasses ==
  /\ now < StartTime + EmailWindowMs
  /\ now' = now + EmailWindowMs
  /\ UNCHANGED <<ticks, store, cache, pool, creds, instClient, nextTok, ops, w, last>>
  /\ UNCHANGED side

GmailNext ==
  \/ \E key \in Clients : GmailRequest(key)
  \/ WindowPasses

GmailSpec == GmailInit /\ [][GmailNext]_vars

\* ---- tokenCache called directly ----------------------------------------------------------
CacheInit ==
  /\ CoreIdle
  /\ SideIdle

\* tokenCache.set(key, value, ttl); ttl = None stands for an omitted argument
CacheSetCall(u, value, ttl) ==
  /\ ops < MaxCacheOps
  /\ ops' = ops + 1
  /\ cache' = CacheSet(cache, u, value, ttl, now)
  /\ last' = [IdleW EXCEPT !.op = "set", !.user = u, !.tokens = value]
  /\ UNCHANGED <<now, ticks, store, pool, creds, instClient, nextTok, w>>

\* tokenCache.get(key); last.tokens is the value returned (NoTokens for null) and
\* last.src tells how the call found the entry
CacheGetCall(u) ==
  /\ ops < MaxCacheOps
  /\ ops' = ops + 1
  /\ cache' = CacheAfterGet(cache, u, now)
  /\ last' = [IdleW EXCEPT !.op = "get", !.user = u, !.tokens = CacheGetValue(cache, u, now),
                           !.src = IF ~cache[u].has THEN "none"
                                   ELSE IF now < cache[u].expires THEN "live" ELSE "stale"]
  /\ UNCHANGED <<now, ticks, store, pool, creds, instClient, nextTok, w>>

\* tokenCache.del(key)
CacheDelCall(u) ==
  /\ ops < MaxCacheOps
  /\ ops' = ops + 1
  /\ cache' = CacheDel(cache, u)
  /\ last' = [IdleW EXCEPT !.op = "del", !.user = u]
  /\ UNCHANGED <<now, ticks, store, pool, creds, instClient, nextTok, w>>

CacheNext ==
  \/ \E u \in Users, k \in {1, 2}, ttl \in {None, CacheTtlSec} :
       CacheSetCall(u, SnapshotOf(u, k), ttl) /\ UNCHANGED side
  \/ \E u \in Users : CacheGetCall(u) /\ UNCHANGED side
  \/ \E u \in Users : CacheDelCall(u) /\ UNCHANGED side
  \/ \E d \in TickSteps : Tick(d) /\ UNCHANGED side

CacheSpec == CacheInit /\ [][CacheNext]_vars

\* ---- provider call wrappers -----------------------------------------------------------------
\* everything but the wrappers' own variables
rest == <<remote, sent, tg, ltasks, build, requests, reached,
          rcache, version, rq, written, served, tk, tres>>

ListWrappers == {"getEmails", "getCalendarEvents", "getTasks"}

Wrappers == ListWrappers \cup {"getTaskLists", "getGmailProfile", "sendEmail"}

\* the remote method a wrapper calls once setupClient has returned
RemoteMethod(name) ==
  CASE name = "getTaskLists" -> "tasklists.list"
    [] name = "getGmailProfile" -> "users.getProfile"
    [] name = "getEmails" -> "users.messages.list"
    [] name = "sendEmail" -> "users.messages.send"
    [] name = "getCalendarEvents" -> "events.list"
    [] name = "getTasks" -> "tasks.list"

\* default value of the maxResults parameter or option
DefaultMaxResults(name) ==
  CASE name = "getEmails" -> 10
    [] name = "getCalendarEvents" -> 10
    [] name = "getTasks" -> 100

\* second argument of Math.min in the list call
Ceiling(name) ==
  CASE name = "getEmails" -> EmailsCap
    [] name = "getCalendarEvents" -> EventsCap
    [] name = "getTasks" -> ListCap

\* a default applies to undefined only
OrDefault(m, d) == IF m.kind = "undefined" THEN Num(d) ELSE m

\* Math.min(a, b): NaN when an argument is not a number
MathMin(a, b) ==
  IF a.kind # "number" \/ b.kind # "number" THEN NaN
  ELSE IF a.v < b.v THEN a ELSE b

SentMaxResults_NoCeiling(name, m) == OrDefault(m, DefaultMaxResults(name))

\* maxResults: Math.min(maxResults, ceiling)
SentMaxResults(name, m) == MathMin(OrDefault(m, DefaultMaxResults(name)), Num(Ceiling(name)))

\* length of array.slice(0, end) for an array of len items
SliceCount(len, end) ==
  IF end.kind = "undefined" THEN len
  ELSE IF end.kind = "NaN" THEN 0
  ELSE IF end.v < 0 THEN (IF len + end.v > 0 THEN len + end.v ELSE 0)
  ELSE IF end.v < len THEN end.v ELSE len

\* the provider rejects a maxResults that is no unsigned integer and takes 0 for
\* no limit of the caller's
ProviderAccepts(m) == m.kind = "number" /\ m.v >= 0

PageSize(mailbox, m) == IF m.v = 0 \/ mailbox < m.v THEN mailbox ELSE m.v

\* the user whose pooled client c is
PoolOwner(pl, c) ==
  IF \E i \in 1..Len(pl) : pl[i].client = c
  THEN pl[CHOOSE i \in 1..Len(pl) : pl[i].client = c].key
  ELSE None

\* a slot whose call has ended is free again; the first free slot is taken
AtRest(k) == wr[k].pc \in {"idle", "done", "failed"}

FreeSlot(k) == AtRest(k) /\ \A j \in Slots : j < k => ~AtRest(j)

\* the frame of a wrapper after a step of the setupClient call it awaits on worker p
Settle(f, p) ==
  IF w'[p].pc # "idle" THEN [f EXCEPT !.pc = "setup", !.proc = p]
  ELSE IF last'.pc = "returned" THEN [f EXCEPT !.pc = "resume", !.proc = None]
  ELSE [f EXCEPT !.pc = "failed", !.proc = None, !.err = last'.err]

\* the wrapper is called: await this.setupClient(userId) up to its first await
WrapperStart(k, name, u, m) ==
  /\ FreeSlot(k)
  /\ \E p \in Procs :
       /\ SetupStart(p, u)
       /\ wr' = [wr EXCEPT ![k] =
                   Settle([IdleWrapper EXCEPT !.name = name, !.user = u, !.maxResults = m,
                                              !.onFile = HasAccessToken(store[u])], p)]
  /\ UNCHANGED calls
  /\ UNCHANGED rest

\* a step of the setupClient call that the wrapper awaits
WrapperSetup(k) ==
  /\ wr[k].pc = "setup"
  /\ LET p == wr[k].proc
     IN /\ \/ SetupDbRead(p)
           \/ SetupDbCont(p)
           \/ RefreshRead(p)
           \/ RefreshCont(p)
           \/ \E withRefresh \in BOOLEAN : ExchangeOk(p, withRefresh)
           \/ ExchangeFail(p)
           \/ Persist(p)
           \/ UpdateCache(p)
           \/ RefreshFinish(p)
           \/ SetupReturn(p)
        /\ wr' = [wr EXCEPT ![k] = Settle(wr[k], p)]
  /\ UNCHANGED calls
  /\ UNCHANGED rest

\* the wrapper resumes: google.<api>({ auth: this.oauth2Client }) and the remote
\* call, issued with the credentials the client then carries
WrapperCall(k) ==
  /\ wr[k].pc = "resume"
  /\ LET c == instClient
         name == wr[k].name
     IN /\ calls' = Append(calls,
                      [name |-> name, method |-> RemoteMethod(name), user |-> wr[k].user,
                       client |-> c, owner |-> PoolOwner(pool, c),
                       token |-> creds[c].access_token,
                       maxResults |-> IF name \in ListWrappers
                                      THEN SentMaxResults(name, wr[k].maxResults) ELSE Undefined,
                       n |-> 1])
        /\ wr' = [wr EXCEPT ![k].pc = "remote", ![k].client = c, ![k].issued = 1]
  /\ UNCHANGED <<now, ticks, store, cache, pool, creds, instClient, nextTok, ops, w, last>>
  /\ UNCHANGED rest

\* the provider answers the remote call.  A failure is thrown on to the caller.
\* getEmails goes on to one users.messages.get per listed message, all issued
\* before the first of them is answered; the others return the answer.
WrapperAnswer(k, ok, mailbox) ==
  /\ wr[k].pc = "remote"
  /\ LET name == wr[k].name
         listed == IF name = "getEmails" /\ ok THEN PageSize(mailbox, SentMaxResults(name, wr[k].maxResults)) ELSE 0
         count == SliceCount(listed, OrDefault(wr[k].maxResults, DefaultMaxResults("getEmails")))
     IN /\ ok /\ name \in ListWrappers => ProviderAccepts(SentMaxResults(name, wr[k].maxResults))
        /\ IF ~ok
           THEN /\ wr' = [wr EXCEPT ![k].pc = "failed", ![k].err = ErrProvider]
                /\ UNCHANGED calls
           ELSE IF name # "getEmails" \/ listed = 0
           THEN /\ wr' = [wr EXCEPT ![k].pc = "done"]
                /\ UNCHANGED calls
           ELSE /\ wr' = [wr EXCEPT ![k].pc = "details", ![k].issued = @ + count]
                /\ calls' = Append(calls,
                              [name |-> name, method |-> "users.messages.get", user |-> wr[k].user,
                               client |-> wr[k].client, owner |-> PoolOwner(pool, wr[k].client),
                               token |-> creds[wr[k].client].access_token,
                               maxResults |-> Undefined, n |-> count])
  /\ UNCHANGED <<now, ticks, store, cache, pool, creds, instClient, nextTok, ops, w, last>>
  /\ UNCHANGED rest

\* getEmails: Promise.all over the detail calls, of which failed were rejected;
\* each rejection is caught, logged and turned into null, and the nulls are dropped
WrapperDetails(k, failed) ==
  /\ wr[k].pc = "details"
  /\ failed <= wr[k].issued - 1
  /\ wr' = [wr EXCEPT ![k].pc = "done", ![k].dropped = failed]
  /\ UNCHANGED calls
  /\ UNCHANGED <<now, ticks, store, cache, pool, creds, instClient, nextTok, ops, w, last>>
  /\ UNCHANGED rest

\* wrapper calls made one after the other
NoneInFlight == \A j \in Slots : AtRest(j)

\* values of maxResults that callers pass: none, and one above every ceiling
CallerMaxResults(name) == IF name \in ListWrappers THEN {Undefined, Num(ListCap + 1)} ELSE {Undefined}

\* number of messages that match the query
Mailboxes == {0, 3}

WrapperNext ==
  \/ \E k \in Slots, name \in Wrappers, u \in Users :
       \E m \in CallerMaxResults(name) : NoneInFlight /\ WrapperStart(k, name, u, m)
  \/ \E k \in Slots : WrapperSetup(k)
  \/ \E k \in Slots : WrapperCall(k)
  \/ \E k \in Slots, ok \in BOOLEAN, mailbox \in Mailboxes : WrapperAnswer(k, ok, mailbox)
  \/ \E k \in Slots, failed \in {0, 1} : WrapperDetails(k, failed)
  \/ \E u \in Users : Disconnect(u) /\ UNCHANGED side
  \/ \E d \in TickSteps : Tick(d) /\ UNCHANGED side

WrapperSpec == Init /\ [][WrapperNext]_vars

\* ---- list wrappers under every kind of maxResults ---------------------------------------
\* values of maxResults a caller can pass: none, parseInt of a non-number, negative,
\* zero, and integers around the two ceilings
AnyMaxResults ==
  {Undefined, NaN} \cup
  {Num(v) : v \in {-1, 0, 1, EmailsCap - 1, EmailsCap, EmailsCap + 1,
                   ListCap, ListCap + 1, 5 * ListCap}}

\* numbers of matching messages: none, a few, more than a ceiling, more than any request
LargeMailboxes == {0, 3, EmailsCap + 10, 6 * ListCap}

ListNext ==
  \/ \E k \in Slots, name \in ListWrappers, u \in Users, m \in AnyMaxResults :
       NoneInFlight /\ WrapperStart(k, name, u, m)
  \/ \E k \in Slots : WrapperSetup(k)
  \/ \E k \in Slots : WrapperCall(k)
  \/ \E k \in Slots, ok \in BOOLEAN, mailbox \in LargeMailboxes : WrapperAnswer(k, ok, mailbox)
  \/ \E k \in Slots, failed \in {0, 1} : WrapperDetails(k, failed)

ListSpec == Init /\ [][ListNext]_vars

\* ---- wrappers called for two users at the same time ---------------------------------------
TwoUsers == {1, 2}

\* both users have consented; the access token on file has expired or is fresh
TwoUsersInit ==
  /\ now = StartTime
  /\ ticks = 0
  /\ \E e \in [TwoUsers -> InitExpiries] :
       store = [u \in TwoUsers |->
                  [exists |-> TRUE,
                   googleTokens |-> [accessToken |-> u, refreshToken |-> u,
                                     accessTokenExpiry |-> e[u], expiryDate |-> e[u]]]]
  /\ cache = [u \in TwoUsers |-> NoEntry]
  /\ pool = <<>>
  /\ creds = <<>>
  /\ instClient = None
  /\ nextTok = Cardinality(TwoUsers) + 1
  /\ ops = 0
  /\ w = [p \in Procs |-> IdleW]
  /\ last = IdleW
  /\ SideIdle

\* getGmailProfile called for either user, the calls overlapping freely
TwoUsersNext ==
  \/ \E k \in Slots, u \in TwoUsers : WrapperStart(k, "getGmailProfile", u, Undefined)
  \/ \E k \in Slots : WrapperSetup(k)
  \/ \E k \in Slots : WrapperCall(k)
  \/ \E k \in Slots, ok \in BOOLEAN : WrapperAnswer(k, ok, 0)

TwoUsersSpec == TwoUsersInit /\ [][TwoUsersNext]_vars

\* ---- refreshes only: setupClient calls and "tokens" callbacks ----------------------------
\* a step of a setupClient call or of the "tokens" listener on worker p
RefreshStep(p) ==
  \/ \E u \in Users : SetupStart(p, u)
  \/ SetupDbRead(p)
  \/ SetupDbCont(p)
  \/ RefreshRead(p)
  \/ RefreshCont(p)
  \/ \E withRefresh \in BOOLEAN : ExchangeOk(p, withRefresh)
  \/ ExchangeFail(p)
  \/ Persist(p)
  \/ UpdateCache(p)
  \/ RefreshFinish(p)
  \/ SetupReturn(p)
  \/ \E u \in Users, withRefresh \in BOOLEAN : TokensEvent(p, u, withRefresh)
  \/ CallbackCache(p)

RefreshNext ==
  \/ \E p \in Procs : RefreshStep(p) /\ UNCHANGED side
  \/ \E d \in TickSteps : Tick(d) /\ UNCHANGED side

RefreshSpec == Init /\ [][RefreshNext]_vars

\* ---- response caches of the calendar and Google-tasks routes -------------------------------
\* the cache middleware a router mounts on its GET routes: the routes read
\* cache.calendarCacheMiddleware / cache.tasksCacheMiddleware, names that
\* middleware/cache.js does not export and vercelFallback does
CacheMiddleware(b) == IF b = "full" THEN "undefined" ELSE "fallback"

\* the invalidation middleware a router mounts on its write routes: the one of
\* middleware/cache.js invalidates when the response has finished, the one of
\* vercelFallback clears the cache before it calls next()
InvalidateMiddleware(b) == IF b = "full" THEN "onFinish" ELSE "clearFirst"

\* ttl passed to set by the fallback middleware, in seconds
ResponseTtlSec(r) == IF r = "calendar" THEN CalendarTtlSec ELSE TasksTtlSec

\* SimpleCacheFallback.get: the item unless Date.now() > item.expires
ResponseHit(e, t) == e.has /\ ~(t > e.expires)

\* SimpleCacheFallback.set
ResponseSet(data, ttl, t) == [has |-> TRUE, data |-> data, expires |-> t + ttl * 1000]

RespInit ==
  /\ CoreIdle
  /\ remote = <<>>
  /\ sent = <<>>
  /\ tg = IdleToggle
  /\ ltasks = <<>>
  /\ build \in {"full", "fallback"}
  /\ requests = [k \in Clients |-> <<>>]
  /\ reached = [k \in Clients |-> <<>>]
  /\ MoreIdle

\* everything but the variables of the response caches
others == <<store, cache, pool, creds, instClient, nextTok, w, last,
            remote, sent, tg, ltasks, build, requests, reached, wr, calls, tk, tres>>

\* a GET arrives: the cache middleware answers from the cache or calls next()
GetArrives(i, r) ==
  /\ rq[i].pc = "idle"
  /\ ops < MaxHttp
  /\ ops' = ops + 1
  /\ IF CacheMiddleware(build) = "fallback" /\ ResponseHit(rcache[r], now)
     THEN /\ served' = [fromCache |-> TRUE, resource |-> r, data |-> rcache[r].data,
                        completed |-> written[r]]
          /\ UNCHANGED <<rq, rcache>>
     ELSE /\ rq' = [rq EXCEPT ![i] = [IdleRequest EXCEPT !.kind = "get", !.pc = "read",
                                                         !.resource = r]]
          /\ rcache' = IF CacheMiddleware(build) = "fallback" /\ rcache[r].has
                       THEN [rcache EXCEPT ![r] = NoResponse] ELSE rcache
          /\ UNCHANGED served
  /\ UNCHANGED <<now, ticks, version, written>>
  /\ UNCHANGED others

\* the controller's provider call is answered: the data of the response is
\* the state of the resource at this moment, or an error
GetReads(i, ok) ==
  /\ rq[i].pc = "read"
  /\ rq' = [rq EXCEPT ![i].pc = "respond", ![i].ok = ok, ![i].data = version[rq[i].resource]]
  /\ UNCHANGED <<now, ticks, ops, rcache, version, written, served>>
  /\ UNCHANGED others

\* res.json(data): the fallback middleware's override caches whatever is sent
GetResponds(i) ==
  /\ rq[i].pc = "respond" /\ rq[i].kind = "get"
  /\ LET r == rq[i].resource
     IN /\ rcache' = IF CacheMiddleware(build) = "fallback"
                     THEN [rcache EXCEPT ![r] = ResponseSet(rq[i].data, ResponseTtlSec(r), now)]
                     ELSE rcache
        /\ served' = [fromCache |-> FALSE, resource |-> r, data |-> rq[i].data,
                      completed |-> written[r]]
  /\ rq' = [rq EXCEPT ![i] = IdleRequest]
  /\ UNCHANGED <<now, ticks, ops, version, written>>
  /\ UNCHANGED others

\* a write request (create, update, delete, move, toggle, clear) arrives: the
\* invalidation middleware runs, then the controller starts its provider call
WriteArrives(i, r) ==
  /\ rq[i].pc = "idle"
  /\ ops < MaxHttp
  /\ ops' = ops + 1
  /\ rcache' = IF InvalidateMiddleware(build) = "clearFirst"
               THEN [x \in Resources |-> IF x = r THEN NoResponse ELSE rcache[x]]
               ELSE rcache
  /\ rq' = [rq EXCEPT ![i] = [IdleRequest EXCEPT !.kind = "write", !.pc = "apply", !.resource = r]]
  /\ UNCHANGED <<now, ticks, version, written, served>>
  /\ UNCHANGED others

\* the provider applies the write, or rejects it
WriteApplies(i, ok) ==
  /\ rq[i].pc = "apply"
  /\ version' = IF ok THEN [version EXCEPT ![rq[i].resource] = @ + 1] ELSE version
  /\ rq' = [rq EXCEPT ![i].pc = "respond", ![i].ok = ok,
                      ![i].data = IF ok THEN version[rq[i].resource] + 1 ELSE None]
  /\ UNCHANGED <<now, ticks, ops, rcache, written, served>>
  /\ UNCHANGED others

\* the response of the write is sent; on "finish" the middleware of
\* middleware/cache.js deletes the user's keys after a 2xx status
WriteResponds(i) ==
  /\ rq[i].pc = "respond" /\ rq[i].kind = "write"
  /\ LET r == rq[i].resource
     IN /\ rcache' = IF InvalidateMiddleware(build) = "onFinish" /\ rq[i].ok
                     THEN [rcache EXCEPT ![r] = NoResponse] ELSE rcache
        /\ written' = IF rq[i].ok /\ rq[i].data > written[r]
                      THEN [written EXCEPT ![r] = rq[i].data] ELSE written
  /\ rq' = [rq EXCEPT ![i] = IdleRequest]
  /\ UNCHANGED <<now, ticks, ops, version, served>>
  /\ UNCHANGED others

RespNext ==
  \/ \E i \in Slots, r \in Resources : GetArrives(i, r)
  \/ \E i \in Slots, ok \in BOOLEAN : GetReads(i, ok)
  \/ \E i \in Slots : GetResponds(i)
  \/ \E i \in Slots, r \in Resources : WriteArrives(i, r)
  \/ \E i \in Slots, ok \in BOOLEAN : WriteApplies(i, ok)
  \/ \E i \in Slots : WriteResponds(i)
  \/ \E d \in TickSteps : Tick(d) /\ UNCHANGED side

RespSpec == RespInit /\ [][RespNext]_vars

\* ---- local task API: access control --------------------------------------------------------
\* the users collection; req.user is one of them
TaskUsers == 1..NumTaskUsers
Role(u) == IF u = NumTaskUsers THEN "admin" ELSE "user"

\* a well-formed ObjectId that names no user: isMongoId accepts it
Ghost == NumTaskUsers + 1
ObjectIds == TaskUsers \cup {Ghost}

\* req.body of a task request: status, assignedTo and createdBy, each possibly
\* missing, at most one of them present
OwnerBodies ==
  {b \in [status : {Absent, "completed"}, hasIsCompleted : {FALSE}, isCompleted : {FALSE},
          assignedTo : ObjectIds \cup {None}, createdBy : ObjectIds \cup {None}] :
     \/ b.assignedTo = None /\ b.createdBy = None
     \/ b.status = Absent /\ (b.assignedTo = None \/ b.createdBy = None)}

\* Task.findById
FindById(docs, id) == IF id \in 1..Len(docs) /\ ~docs[id].deleted THEN docs[id] ELSE NoDoc

\* the document after Task.findByIdAndUpdate(id, req.body): every field of the
\* schema present in the body is set, createdBy included
Updated(doc, body) ==
  [status |-> Overlay(doc, body).status,
   isCompleted |-> Overlay(doc, body).isCompleted,
   createdBy |-> IF body.createdBy # None THEN body.createdBy ELSE doc.createdBy,
   assignedTo |-> IF body.assignedTo # None THEN body.assignedTo ELSE doc.assignedTo,
   deleted |-> doc.deleted]

\* populate(path, "name email"): the user, or null when the id names no user
Populate(id) == IF id \in TaskUsers THEN id ELSE None

\* getTask's answer: the && chain reads task.assignedTo._id and
\* task.createdBy._id of the populated document and stops at the first
\* operand that is false; reading ._id of null throws, which the catch turns
\* into 500
GetTaskStatus(task, u) ==
  IF task = NoDoc THEN 404
  ELSE IF Role(u) = "admin" THEN 200
  ELSE IF Populate(task.assignedTo) = None THEN 500
  ELSE IF task.assignedTo = u THEN 200
  ELSE IF Populate(task.createdBy) = None THEN 500
  ELSE IF task.createdBy = u THEN 200
  ELSE 403

\* updateTask's permission test
UpdateDenied(task, u) == Role(u) # "admin" /\ task.createdBy # u /\ task.assignedTo # u

\* deleteTask's permission test
DeleteDenied(task, u) == Role(u) # "admin" /\ task.createdBy # u

\* getTasks' filter: the $or for everyone but an admin, and the assignedTo of the query
Matches(doc, u, assignedTo) ==
  /\ ~doc.deleted
  /\ Role(u) # "admin" => (doc.assignedTo = u \/ doc.createdBy = u)
  /\ assignedTo # None => doc.assignedTo = assignedTo

\* sort({ createdAt: -1 })
Newest(s) == [k \in 1..Len(s) |-> s[Len(s) + 1 - k]]

\* skip(startIndex).limit(limit)
SkipLimit(s, startIndex, limit) ==
  SubSeq(s, startIndex + 1, IF startIndex + limit < Len(s) THEN startIndex + limit ELSE Len(s))

AccessInit ==
  /\ CoreIdle
  /\ remote = <<>>
  /\ sent = <<>>
  /\ tg = IdleToggle
  /\ ltasks = <<>>
  /\ build = "full"
  /\ requests = [k \in Clients |-> <<>>]
  /\ reached = [k \in Clients |-> <<>>]
  /\ MoreIdle

\* everything but the Task collection and the task requests
untouched == <<now, ticks, store, cache, pool, creds, instClient, nextTok, w, last,
               remote, sent, tg, build, requests, reached, wr, calls,
               rcache, version, rq, written, served>>

Answer(op, u, id, status, seen, before, wrote, list) ==
  [op |-> op, user |-> u, id |-> id, status |-> status, seen |-> seen, before |-> before,
   wrote |-> wrote, list |-> list]

\* POST /api/tasks: 400 unless assignedTo is an ObjectId, else createdBy is
\* set to req.user.id and the document is created
CreateTaskAs(u, assignedTo) ==
  /\ ops < MaxAccessOps
  /\ ops' = ops + 1
  /\ Len(ltasks) < MaxTasks
  /\ IF assignedTo = None
     THEN /\ tres' = Answer("create", u, None, 400, NoDoc, NoDoc, FALSE, <<>>)
          /\ UNCHANGED ltasks
     ELSE /\ ltasks' = Append(ltasks, [status |-> PreSave(NewTask).status,
                                       isCompleted |-> PreSave(NewTask).isCompleted,
                                       createdBy |-> u, assignedTo |-> assignedTo,
                                       deleted |-> FALSE])
          /\ tres' = Answer("create", u, Len(ltasks) + 1, 201, NoDoc, NoDoc, TRUE, <<>>)
  /\ UNCHANGED tk
  /\ UNCHANGED untouched

\* GET /api/tasks
GetTasksAs(u, assignedTo, page, limit) ==
  /\ ops < MaxAccessOps
  /\ ops' = ops + 1
  /\ tres' = Answer("list", u, None, 200, NoDoc, NoDoc, FALSE,
                    SkipLimit(Newest(SelectSeq(ltasks, LAMBDA doc : Matches(doc, u, assignedTo))),
                              (page - 1) * limit, limit))
  /\ UNCHANGED <<ltasks, tk>>
  /\ UNCHANGED untouched

\* GET /api/tasks/:id
GetTaskAs(u, id) ==
  /\ ops < MaxAccessOps
  /\ ops' = ops + 1
  /\ tres' = Answer("get", u, id, GetTaskStatus(FindById(ltasks, id), u), FindById(ltasks, id),
                    NoDoc, FALSE, <<>>)
  /\ UNCHANGED <<ltasks, tk>>
  /\ UNCHANGED untouched

\* PUT /api/tasks/:id up to the permission test: 404, 403, or on to the write
UpdateTaskFind(i, u, id, body) ==
  /\ tk[i].pc = "idle"
  /\ ops < MaxAccessOps
  /\ ops' = ops + 1
  /\ LET task == FindById(ltasks, id)
     IN IF task = NoDoc
        THEN /\ tres' = Answer("update", u, id, 404, NoDoc, NoDoc, FALSE, <<>>)
             /\ UNCHANGED tk
        ELSE IF UpdateDenied(task, u)
        THEN /\ tres' = Answer("update", u, id, 403, task, NoDoc, FALSE, <<>>)
             /\ UNCHANGED tk
        ELSE /\ tk' = [tk EXCEPT ![i] = [pc |-> "write", op |-> "update", user |-> u, id |-> id,
                                         body |-> body, seen |-> task]]
             /\ UNCHANGED tres
  /\ UNCHANGED ltasks
  /\ UNCHANGED untouched

\* Task.findByIdAndUpdate(req.params.id, req.body): null when the document is gone
UpdateTaskWrite(i) ==
  /\ tk[i].pc = "write" /\ tk[i].op = "update"
  /\ LET task == FindById(ltasks, tk[i].id)
     IN /\ ltasks' = IF task = NoDoc THEN ltasks
                     ELSE [ltasks EXCEPT ![tk[i].id] = Updated(task, tk[i].body)]
        /\ tres' = Answer("update", tk[i].user, tk[i].id, 200, tk[i].seen, task,
                          task # NoDoc, <<>>)
  /\ tk' = [tk EXCEPT ![i] = IdleTask]
  /\ UNCHANGED ops
  /\ UNCHANGED untouched

\* DELETE /api/tasks/:id up to the permission test
DeleteTaskFind(i, u, id) ==
  /\ tk[i].pc = "idle"
  /\ ops < MaxAccessOps
  /\ ops' = ops + 1
  /\ LET task == FindById(ltasks, id)
     IN IF task = NoDoc
        THEN /\ tres' = Answer("delete", u, id, 404, NoDoc, NoDoc, FALSE, <<>>)
             /\ UNCHANGED tk
        ELSE IF DeleteDenied(task, u)
        THEN /\ tres' = Answer("delete", u, id, 403, task, NoDoc, FALSE, <<>>)
             /\ UNCHANGED tk
        ELSE /\ tk' = [tk EXCEPT ![i] = [pc |-> "write", op |-> "delete", user |-> u, id |-> id,
                                         body |-> NoBody, seen |-> task]]
             /\ UNCHANGED tres
  /\ UNCHANGED ltasks
  /\ UNCHANGED untouched

\* Task.findByIdAndDelete(req.params.id)
DeleteTaskWrite(i) ==
  /\ tk[i].pc = "write" /\ tk[i].op = "delete"
  /\ LET task == FindById(ltasks, tk[i].id)
     IN /\ ltasks' = IF task = NoDoc THEN ltasks
                     ELSE [ltasks EXCEPT ![tk[i].id].deleted = TRUE]
        /\ tres' = Answer("delete", tk[i].user, tk[i].id, 200, tk[i].seen, task,
                          task # NoDoc, <<>>)
  /\ tk' = [tk EXCEPT ![i] = IdleTask]
  /\ UNCHANGED ops
  /\ UNCHANGED untouched

AccessNext ==
  \/ \E u \in TaskUsers, a \in ObjectIds \cup {None} : CreateTaskAs(u, a)
  \/ \E u \in TaskUsers, a \in ObjectIds \cup {None}, page \in Pages, limit \in Limits :
       GetTasksAs(u, a, page, limit)
  \/ \E u \in TaskUsers, id \in 1..MaxTasks : GetTaskAs(u, id)
  \/ \E i \in Slots, u \in TaskUsers, id \in 1..MaxTasks, body \in OwnerBodies :
       UpdateTaskFind(i, u, id, body)
  \/ \E i \in Slots : UpdateTaskWrite(i)
  \/ \E i \in Slots, u \in TaskUsers, id \in 1..MaxTasks : DeleteTaskFind(i, u, id)
  \/ \E i \in Slots : DeleteTaskWrite(i)

AccessSpec == AccessInit /\ [][AccessNext]_vars

\* ---- properties ---------------------------------------------------------------------------
StoredRefreshToken(u) == store[u].googleTokens.refreshToken

\* worker p takes the step that leaves position pc
Leaves(p, pc) == w[p].pc = pc /\ w'[p].pc # pc

\* this step is the start of a setupClient call for u (it may also return at once)
EnsureStarts(u) ==
  /\ ops' = ops + 1
  /\ \/ \E p \in Procs : w[p].pc = "idle" /\ w'[p].op = "ensure" /\ w'[p].user = u
     \/ w' = w /\ last'.op = "ensure" /\ last'.user = u

\* the snapshot a setupClient call worked with, against the margin of five minutes
SnapshotFresh(r) == r.tokens.expiry_date # None /\ r.tokens.expiry_date - r.tchk > RefreshMarginMs

SnapshotNear(r) == r.tokens.expiry_date # None /\ r.tokens.expiry_date - r.tchk < RefreshMarginMs

SnapshotExpired(r) == r.tokens.expiry_date # None /\ r.tokens.expiry_date < r.tchk

\* failure kinds of the taxonomy, by the message of the error that reaches the caller
FailureKind(err) ==
  IF err = ErrNoTokens THEN "NotAuthenticated"
  ELSE IF err = ErrNoRefreshToken THEN "ReauthRequired"
  ELSE IF err = ErrRefreshFailed THEN "RefreshFailed"
  ELSE "Other"

\* C1: when refreshToken persists the answer of an exchange that carried no
\* refresh_token, the refresh token in the store afterwards is the one the call
\* found on file.
C1_RefreshKeepsRefreshToken ==
  [][\A p \in Procs :
       (Leaves(p, "persist") /\ w[p].op = "ensure" /\ w[p].respRt = None)
         => store'[w[p].user].googleTokens.refreshToken = w[p].rtRead]_vars

C1_Witness ==
  \E p \in Procs :
    /\ w[p].op = "ensure" /\ w[p].pc = "cache_set"
    /\ w[p].respRt = None /\ w[p].rtRead # None
    /\ StoredRefreshToken(w[p].user) = w[p].rtRead

\* C2: without a disconnect, no step takes a user's stored refresh token from
\* non-empty to empty, whatever the interleaving of setupClient, refreshToken,
\* "tokens" callbacks and consent logins.
C2_RefreshTokenDurable ==
  [][\A u \in Users :
       (StoredRefreshToken(u) # None /\ ~Disconnect(u)) => StoredRefreshToken(u)' # None]_vars

C4_Laziness ==
  /\ (last.op = "ensure" /\ SnapshotFresh(last))
       => (last.pc = "returned" /\ last.result # None /\ last.exch = 0 /\ ~last.wrote)
  /\ \A p \in Procs : w[p].op = "ensure" => ~SnapshotFresh(w[p])

C4_Witness ==
  /\ last.op = "ensure" /\ SnapshotFresh(last) /\ last.pc = "returned"
  /\ last.tokens.refresh_token # None

\* C5: a setupClient call whose snapshot expires in less than five minutes (or has
\* expired) and whose refreshToken finds a refresh token on file invokes the
\* exchange exactly once; a client is returned only after that exchange answered.
C5_ExactlyOneExchange ==
  /\ (last.op = "ensure" /\ SnapshotNear(last) /\ last.rtRead # None) => last.exch = 1
  /\ (last.op = "ensure" /\ SnapshotNear(last) /\ last.pc = "returned")
       => (last.exch = 1 /\ last.cred.access_token # None)
  /\ \A p \in Procs : w[p].exch <= 1

C5_Witness ==
  /\ last.op = "ensure" /\ SnapshotNear(last) /\ ~SnapshotExpired(last)
  /\ last.pc = "returned" /\ last.exch = 1

\* C6: a setupClient call that directly follows a call for the same user that
\* refreshed successfully, while the token then obtained is still more than five
\* minutes from its expiry, invokes no exchange: the two calls together invoke one.
C6_Idempotent ==
  /\ (last.op = "ensure" /\ last.after # None /\ last.after - last.tchk > RefreshMarginMs
        /\ last.tchk # None)
       => (last.exch = 0 /\ last.pc = "returned" /\ SnapshotFresh(last))
  /\ \A p \in Procs :
       (w[p].op = "ensure" /\ w[p].after # None /\ w[p].tchk # None)
         => w[p].after - w[p].tchk <= RefreshMarginMs

C6_Witness ==
  /\ last.op = "ensure" /\ last.after # None /\ last.pc = "returned" /\ last.exch = 0
  /\ last.src = "cache"

\* C7: when setupClient returns after refreshing a snapshot that had expired, the
\* client it returns carries the access token of the exchange, and the store
\* holds that access token with an expiry later than the expired one.
C7_RefreshedClient ==
  [][\A p \in Procs :
       (Leaves(p, "setup_return") /\ SnapshotExpired(w[p]) /\ w[p].rtRead # None)
         => /\ last'.pc = "returned"
            /\ creds'[last'.result].access_token = w[p].cred.access_token
            /\ w[p].cred.access_token # w[p].tokens.access_token
            /\ store'[w[p].user].googleTokens.accessToken = w[p].cred.access_token
            /\ store'[w[p].user].googleTokens.accessTokenExpiry > w[p].tokens.expiry_date
            /\ store'[w[p].user].googleTokens.accessTokenExpiry >= w[p].cred.expiry_date
            /\ store'[w[p].user].googleTokens.expiryDate
                 = store'[w[p].user].googleTokens.accessTokenExpiry]_vars

C7_Witness ==
  /\ last.op = "ensure" /\ last.pc = "returned" /\ last.exch = 1
  /\ last.tokens.expiry_date = last.tchk - 1000
  /\ creds[last.result].access_token = last.cred.access_token
  /\ store[last.user].googleTokens.accessToken = last.cred.access_token

\* C8: a setupClient call that finds an expired snapshot and no refresh token on
\* file fails with the ReauthRequired kind, which is not the kind of a failed
\* exchange, and invokes no exchange.
C8_ReauthRequired ==
  (last.op = "ensure" /\ last.pc = "failed" /\ last.tchk # None /\ last.rtRead = None
     /\ last.exch = 0)
    => (FailureKind(last.err) = "ReauthRequired"
          /\ FailureKind(last.err) # FailureKind(RefreshCatchError(ErrProvider)))

\* C9: a setupClient call made while the store holds no access token for the
\* user fails with NotAuthenticated, returns no client and invokes no exchange,
\* whether or not the token cache holds an entry for the user.
C9_NotAuthenticated ==
  (last.op = "ensure" /\ ~last.onFile)
    => (last.pc = "failed" /\ FailureKind(last.err) = "NotAuthenticated"
          /\ last.result = None /\ last.exch = 0)

C11_PoolCap ==
  [][/\ Len(pool') <= PoolCap
     /\ (Len(pool) = PoolCap /\ ~PoolHas(pool, last'.user))
          => /\ Len(pool') = PoolCap
             /\ PoolHas(pool', last'.user)
             /\ ~PoolHas(pool', pool[1].key)]_vars

\* C18: an acquire for a pooled user returns the pooled client, constructs none,
\* leaves the pool and every other client as they were, sets the client's
\* credentials to the snapshot when one is supplied and leaves them otherwise.
C18_AcquirePooled ==
  [][PoolHas(pool, last'.user)
       => LET c == PoolGet(pool, last'.user)
          IN /\ last'.result = c
             /\ pool' = pool
             /\ Len(creds') = Len(creds)
             /\ \A d \in 1..Len(creds) : d # c => creds'[d] = creds[d]
             /\ creds'[c] = (IF last'.tokens # NoTokens THEN last'.tokens ELSE creds[c])]_vars

C18_Witness ==
  /\ last.op = "acquire" /\ last.tokens # NoTokens
  /\ PoolHas(pool, last.user) /\ last.result = PoolGet(pool, last.user)
  /\ last.result <= PoolCap
  /\ creds[last.result] = last.tokens
  /\ creds[last.result] # SnapshotOf(last.user, 0)

\* C12: when a disconnect of u completes, the store holds no credential of u,
\* the token cache holds no entry of u and the client pool holds no client of u.
C12_DisconnectClears ==
  [][\A u \in Users :
       Disconnect(u)
         => /\ store'[u].googleTokens = NoGoogleTokens
            /\ ~cache'[u].has
            /\ ~PoolHas(pool', u)]_vars

\* an operation completes in this step (at once, or by a worker going idle)
Completes ==
  \/ \E p \in Procs : w[p].pc # "idle" /\ w'[p].pc = "idle"
  \/ w' = w /\ ops' = ops + 1

\* C13: at the moment setupClient returns a client, the access token in that
\* client's credentials does not expire within the next five minutes.  The
\* expiry in a client's credentials is the provider's own for a refreshed
\* token and is never earlier than the provider's for a snapshot.
C13_SafetyMargin ==
  [][(Completes /\ last'.op = "ensure" /\ last'.pc = "returned")
       => /\ creds'[last'.result].access_token # None
          /\ creds'[last'.result].expiry_date - now' >= RefreshMarginMs]_vars

\* C14: a toggle request for a task of the remote list sends one update whose
\* body flips the status, carries the title, notes, due and parent read from
\* the task (absent notes as the empty text), carries a new completed time when
\* the new status is "completed" and no completed field when it is "needsAction".
C14_TogglePayload ==
  (tg.pc = "idle" /\ tg.was # NoTask)
    => /\ tg.updates = 1
       /\ LET body == sent[Len(sent)]
          IN /\ body.id = tg.taskId
             /\ body.title = tg.was.title
             /\ body.notes = NotesOrEmpty(tg.was.notes)
             /\ body.due = tg.was.due
             /\ body.parent = tg.was.parent
             /\ tg.was.status = "needsAction"
                  => (body.status = "completed" /\ body.completed # None
                        /\ body.completed # tg.was.completed)
             /\ tg.was.status = "completed"
                  => (body.status = "needsAction" /\ body.completed = None)

\* C15: the document a default read yields (getMe, session deserialization)
\* carries neither the access token nor the refresh token.
C15_DefaultReadHidesTokens ==
  (last.op \in {"getMe", "deserialize"})
    => /\ last.doc.googleTokens.accessToken = None
       /\ last.doc.googleTokens.refreshToken = None

\* C16: every stored local task has isCompleted true exactly when its status
\* is "completed".
C16_IsCompletedFollowsStatus ==
  \A i \in 1..Len(ltasks) : ltasks[i].isCompleted <=> (ltasks[i].status = "completed")

\* C17: for every client key, no window of EmailWindowMs holds more than
\* EmailMax requests that reached a Gmail handler.
C17_GmailRateLimit ==
  \A k \in Clients : \A i \in 1..Len(reached[k]) :
    Cardinality({j \in 1..Len(reached[k]) :
                   reached[k][j] >= reached[k][i] /\ reached[k][j] < reached[k][i] + EmailWindowMs})
      <= EmailMax

\* C19: when the "tokens" callback has handled new tokens that carry no refresh
\* token, for a user with a refresh token on file, the cache entry holds the new
\* access token and the refresh token of the store, as after an explicit refresh
\* that received the same answer.
C19_CallbackAsRefresh ==
  [][\A p \in Procs :
       (Leaves(p, "cb_cache") /\ w[p].op = "callback" /\ w[p].respRt = None
          /\ store[w[p].user].googleTokens.refreshToken # None)
         => /\ store'[w[p].user].googleTokens.accessToken = w[p].cred.access_token
            /\ cache'[w[p].user].has
            /\ cache'[w[p].user].value.access_token = w[p].cred.access_token
            /\ cache'[w[p].user].value.refresh_token = store'[w[p].user].googleTokens.refreshToken
            /\ cache'[w[p].user].value.refresh_token # None]_vars

\* C20: a get after the entry's TTL has elapsed returns null and removes the
\* entry; a get before that returns the value the entry holds and leaves the
\* cache as it was.
C20_CacheGet ==
  [][(ops' = ops + 1 /\ last'.op = "get")
       => LET u == last'.user
          IN /\ (cache[u].has /\ now > cache[u].expires)
                  => (last'.tokens = NoTokens /\ ~cache'[u].has /\ cache'[u] = NoEntry)
             /\ (cache[u].has /\ now < cache[u].expires)
                  => (last'.tokens = cache[u].value /\ cache' = cache)]_vars

C20_Witness ==
  /\ last.op = "get" /\ last.src = "stale"
  /\ last.tokens = NoTokens
  /\ ~cache[last.user].has

\* a wrapper call that ended in a failure of setupClient
SetupFailed(f) == f.pc = "failed" /\ f.client = None

\* a wrapper call that ended in a failure of its remote call
CallFailed(f) == f.pc = "failed" /\ f.client # None

\* C21: a wrapper issues no remote call before setupClient has returned and none
\* when setupClient fails, exactly one when it succeeds, and a failed remote
\* call is reported to the caller and not reissued.
C21_OneRemoteCall ==
  \A k \in Slots :
    /\ wr[k].pc \in {"setup", "resume"} => wr[k].issued = 0
    /\ SetupFailed(wr[k]) => wr[k].issued = 0
    /\ wr[k].pc = "done" => (wr[k].issued = 1 /\ wr[k].dropped = 0)
    /\ CallFailed(wr[k]) => wr[k].issued = 1

\* C22: the maxResults of a list call is never a number above the wrapper's
\* ceiling (50 for getEmails and getCalendarEvents, 100 for getTasks), whatever
\* the caller passed, and getEmails fetches the details of at most 50 messages.
C22_MaxResultsCeiling ==
  \A i \in 1..Len(calls) :
    /\ (calls[i].name \in ListWrappers /\ calls[i].method = RemoteMethod(calls[i].name))
         => ~(calls[i].maxResults.kind = "number" /\ calls[i].maxResults.v > Ceiling(calls[i].name))
    /\ calls[i].method = "users.messages.get" => calls[i].n <= EmailsCap

C22_Witness ==
  \E k \in Slots :
    /\ wr[k].name = "getEmails" /\ wr[k].pc = "done"
    /\ wr[k].maxResults.kind = "number" /\ wr[k].maxResults.v > EmailsCap
    /\ wr[k].issued = 1 + EmailsCap
    /\ \E i \in 1..Len(calls) :
         calls[i].method = "users.messages.list" /\ calls[i].maxResults = Num(EmailsCap)

\* C23: the update of a toggle writes the title, notes, due and parent that the
\* toggle read from the list and the status flipped from the one it read,
\* whatever another update has made of the task since then; so an update that
\* lands between the read and the write is lost.
C23_LostUpdate ==
  [][(tg.pc = "update" /\ tg'.pc = "idle")
       => LET task == FindTask(remote', tg.taskId)
          IN /\ task.title = tg.currentTask.title
             /\ task.notes = NotesOrEmpty(tg.currentTask.notes)
             /\ task.due = tg.currentTask.due
             /\ task.parent = tg.currentTask.parent
             /\ task.status = (IF tg.currentTask.status = "completed"
                               THEN "needsAction" ELSE "completed")]_vars

C23_Witness ==
  /\ tg.pc = "idle" /\ tg.code = 200
  /\ tg.before.title = "z" /\ tg.before.notes = "y" /\ tg.before.due = "2024-02-02"
  /\ tg.before.status # tg.currentTask.status
  /\ LET task == FindTask(remote, tg.taskId)
     IN /\ task.title = tg.currentTask.title /\ task.title # "z"
        /\ task.notes # "y"
        /\ task.due = tg.currentTask.due /\ task.due # "2024-02-02"

\* C24: refreshToken works with the user document it read from the store: when
\* that document holds the refresh token R the exchange is invoked with R, and
\* when it holds none the call fails with no exchange invoked; what the token
\* cache holds for the user plays no part.
C24_RefreshReadsStore ==
  [][\A p \in Procs :
       /\ Leaves(p, "rt_read") => w'[p].doc = store[w[p].user]
       /\ Leaves(p, "rt_cont")
            => IF w[p].doc.exists /\ w[p].doc.googleTokens.refreshToken # None
               THEN /\ w'[p].pc = "exchange"
                    /\ w'[p].rtRead = w[p].doc.googleTokens.refreshToken
                    /\ creds'[w'[p].client].refresh_token = w[p].doc.googleTokens.refreshToken
                    /\ w'[p].exch = 0
               ELSE /\ w'[p].pc = "idle"
                    /\ last'.pc = "failed" /\ last'.exch = 0]_vars

C24_Witness ==
  \E p \in Procs :
    /\ w[p].pc = "exchange" /\ w[p].rtRead # None
    /\ w[p].rtRead = StoredRefreshToken(w[p].user)
    /\ creds[w[p].client].refresh_token = w[p].rtRead
    /\ cache[w[p].user].has
    /\ cache[w[p].user].value.refresh_token # w[p].rtRead

\* C25: every remote call a wrapper issues for user U is handed the pooled
\* client of U, never the client of another user.
C25_CrossUserIsolation ==
  \A i \in 1..Len(calls) : calls[i].owner = calls[i].user

\* C26: when no setupClient call, refresh or "tokens" callback is in flight, the
\* token cache entry of a user, if a get would return it, holds the access token
\* of the user's store record.
C26_CacheMatchesStore ==
  AllIdle
    => \A u \in Users :
         CacheHit(cache, u, now)
           => cache[u].value.access_token = store[u].googleTokens.accessToken

\* C27: when an explicit refresh has succeeded, the expiry in the store
\* (accessTokenExpiry and expiryDate), the expiry in the token cache entry and
\* the expiry in the pooled client's credentials are all the expiry that the
\* provider returned with the new access token.
C27_ExpiryIsProviders ==
  [][\A p \in Procs :
       (Leaves(p, "rt_finish") /\ w[p].op = "ensure")
         => /\ creds'[w[p].client].expiry_date = w[p].cred.expiry_date
            /\ store'[w[p].user].googleTokens.accessTokenExpiry = w[p].cred.expiry_date
            /\ store'[w[p].user].googleTokens.expiryDate = w[p].cred.expiry_date
            /\ cache'[w[p].user].has
            /\ cache'[w[p].user].value.expiry_date = w[p].cred.expiry_date]_vars

\* C28: a wrapper called while the store holds no access token for the user
\* (after a disconnect, before a new consent) fails with NotAuthenticated and
\* issues no remote call, whatever the token cache and the pool hold.
C28_NoCallAfterDisconnect ==
  \A k \in Slots :
    (wr[k].pc # "idle" /\ ~wr[k].onFile)
      => /\ wr[k].issued = 0
         /\ wr[k].pc \in {"setup", "failed"}
         /\ wr[k].pc = "failed" => FailureKind(wr[k].err) = "NotAuthenticated"

\* C29: a GET answered from the response cache is answered with data read from
\* the provider no earlier than the last write on that resource whose request
\* had completed successfully when the GET arrived.
C29_FreshAfterWrite ==
  served.fromCache => served.data >= served.completed

\* user u created the task or is its assignee
Involved(task, u) == task.createdBy = u \/ task.assignedTo = u

\* what the access rule lets a user who is no admin do to a task
Permitted(op, task, u) == IF op = "delete" THEN task.createdBy = u ELSE Involved(task, u)

\* a single task is read only by its creator or assignee
ReadsOnlyOwn ==
  tres.op = "get" /\ tres.status = 200 /\ Role(tres.user) # "admin"
    => Involved(tres.seen, tres.user)

\* a stored task is written only by a user who is its creator or assignee at the write
UpdatesOnlyOwn ==
  tres.op = "update" /\ tres.wrote /\ Role(tres.user) # "admin"
    => Involved(tres.before, tres.user)

\* a stored task is deleted only by the user who is its creator at the deletion
DeletesOnlyCreated ==
  tres.op = "delete" /\ tres.wrote /\ Role(tres.user) # "admin"
    => tres.before.createdBy = tres.user

\* the list holds only tasks the user created or is assigned to
ListsOnlyOwn ==
  tres.op = "list" /\ Role(tres.user) # "admin"
    => \A k \in 1..Len(tres.list) : Involved(tres.list[k], tres.user)

\* an operation of a user the rule does not let through answers 403 and writes nothing
DeniedAnswers403 ==
  /\ tres.op \in {"get", "update", "delete"}
  /\ Role(tres.user) # "admin"
  /\ tres.seen # NoDoc
  /\ ~Permitted(tres.op, tres.seen, tres.user)
  => tres.status = 403 /\ ~tres.wrote

\* C30: a user who is no admin reads or updates a task only as its creator or
\* assignee and deletes it only as its creator, the list returned to them
\* holds only tasks they created or are assigned to, and a denied operation
\* answers 403 and leaves the stored task unchanged.
C30_TaskAccessControl ==
  /\ ReadsOnlyOwn
  /\ UpdatesOnlyOwn
  /\ DeletesOnlyCreated
  /\ ListsOnlyOwn
  /\ DeniedAnswers403

====
